---------------------------- MODULE Spec2Model ----------------------------
(***************************************************************************)
(* A model of posthog-rs: the Event / Exception / InnerEvent data model,   *)
(* the capture client and the chained panic hook.                          *)
(*                                                                         *)
(* The repository holds the crate twice: the single-file crate root        *)
(* src/lib.rs and the module files src/event.rs, src/client/mod.rs and     *)
(* src/client/blocking.rs.  The two agree on the data model and on the     *)
(* hook; they differ in the capture operations.  The variable `variant`    *)
(* says which of the two is built ("lib" or "blocking").                   *)
(*                                                                         *)
(* Text that the code takes apart (the release string, the debug and       *)
(* display strings of a failure, JSON string values) is a sequence of      *)
(* one-character strings.  Keys, names and ids are never taken apart and   *)
(* are TLA+ strings.                                                       *)
(***************************************************************************)
EXTENDS Integers, Sequences, FiniteSets, TLC

VARIABLES
    version_str,  \* env!("CARGO_PKG_VERSION"), fixed by the build
    variant,      \* which copy of the code is built: "lib" | "blocking"
    obj,          \* the Event or Exception the user is building (or none)
    written,      \* history: per key, the prop of the last successful insert_prop on obj
    converted,    \* the Events to_event returned since the Exception last changed
    inner,        \* the InnerEvent the last call built (none after any other call)
    last,         \* the last data-model call and its result
    inserts,      \* number of insert_prop calls made on obj
    clients,      \* the clients constructed so far, in order (their ClientOptions)
    hook,         \* the process-wide panic hook
    panicking,    \* the panic being handled: its payload and the hooks still to run
    trace,        \* what the hooks did for the panic handled last, in order
                  \* (emptied by the next construction)
    call,         \* the public capture call made since the last construction or
                  \* panic, by any of the clients: its sends and its result
    installing    \* per client, how far its construction got with the hook:
                  \* "off" (capturing not enabled), "take" (before take_hook),
                  \* "set" (holding the hook it took, before set_hook), "done"

dataVars == <<obj, written, converted, inner, last, inserts>>
hookVars == <<clients, hook, panicking, trace, call, installing>>
vars == <<version_str, variant, obj, written, converted, inner, last, inserts,
          clients, hook, panicking, trace, call, installing>>

-----------------------------------------------------------------------------
(* Bounds of the model *)

\* insert_prop calls per Event or Exception
MaxInserts == 3
\* to_event calls per Exception
MaxConversions == 2
\* clients constructed in one run
MaxClients == 2
\* events (or exceptions) in one batch call
MaxBatch == 2

-----------------------------------------------------------------------------
(* Text *)

Digits == {"0", "1", "2", "3", "4", "5", "6", "7", "8", "9"}

Letters == {"a", "b", "c", "d", "e", "f", "g", "h", "i", "j", "k", "l", "m",
            "n", "o", "p", "q", "r", "s", "t", "u", "v", "w", "x", "y", "z",
            "A", "B", "C", "D", "E", "F", "G", "H", "I", "J", "K", "L", "M",
            "N", "O", "P", "Q", "R", "S", "T", "U", "V", "W", "X", "Y", "Z"}

\* char::is_whitespace, on the characters the model uses
Whitespace == {" ", "\t", "\n", "\r"}

DigitVal(c) ==
    CASE c = "0" -> 0 [] c = "1" -> 1 [] c = "2" -> 2 [] c = "3" -> 3
      [] c = "4" -> 4 [] c = "5" -> 5 [] c = "6" -> 6 [] c = "7" -> 7
      [] c = "8" -> 8 [] c = "9" -> 9

\* index of the first character of s that is in the set cs, 0 when there is none
FirstIndexIn(s, cs) ==
    IF \E i \in 1..Len(s) : s[i] \in cs
    THEN CHOOSE i \in 1..Len(s) : s[i] \in cs /\ \A j \in 1..(i - 1) : s[j] \notin cs
    ELSE 0

\* str::split(c), collected
RECURSIVE SplitOn(_, _)
SplitOn(s, c) ==
    LET i == FirstIndexIn(s, {c})
    IN  IF i = 0 THEN <<s>>
        ELSE <<SubSeq(s, 1, i - 1)>> \o SplitOn(SubSeq(s, i + 1, Len(s)), c)

\* str::contains(needle)
Contains(s, needle) ==
    \E i \in 0..(Len(s) - Len(needle)) : SubSeq(s, i + 1, i + Len(needle)) = needle

\* str::trim
RECURSIVE TrimStart(_)
TrimStart(s) ==
    IF Len(s) > 0 /\ s[1] \in Whitespace THEN TrimStart(Tail(s)) ELSE s

RECURSIVE TrimEnd(_)
TrimEnd(s) ==
    IF Len(s) > 0 /\ s[Len(s)] \in Whitespace
    THEN TrimEnd(SubSeq(s, 1, Len(s) - 1)) ELSE s

Trim(s) == TrimEnd(TrimStart(s))

\* char::escape_debug as <str as Debug>::fmt applies it, on the characters the
\* model uses
EscapeChar(c) ==
    CASE c = "\"" -> <<"\\", "\"">>
      [] c = "\\" -> <<"\\", "\\">>
      [] c = "\n" -> <<"\\", "n">>
      [] c = "\r" -> <<"\\", "r">>
      [] c = "\t" -> <<"\\", "t">>
      [] OTHER    -> <<c>>

RECURSIVE EscapeDebug(_)
EscapeDebug(s) ==
    IF s = <<>> THEN <<>> ELSE EscapeChar(Head(s)) \o EscapeDebug(Tail(s))

\* format!("{s:?}") of a string
DebugStr(s) == <<"\"">> \o EscapeDebug(s) \o <<"\"">>

-----------------------------------------------------------------------------
(* The release string and its semantic version *)

\* a numeric identifier of semver: digits, no leading zero
IsNumericIdent(seg) ==
    /\ Len(seg) > 0
    /\ \A i \in 1..Len(seg) : seg[i] \in Digits
    /\ Len(seg) > 1 => seg[1] # "0"

RECURSIVE ParseNum(_)
ParseNum(seg) ==
    IF seg = <<>> THEN 0
    ELSE 10 * ParseNum(SubSeq(seg, 1, Len(seg) - 1)) + DigitVal(seg[Len(seg)])

IsIdentChars(seg) ==
    /\ Len(seg) > 0
    /\ \A i \in 1..Len(seg) : seg[i] \in Digits \cup Letters \cup {"-"}

\* a pre-release identifier: [0-9A-Za-z-]+, and no leading zero when all digits
IsPreIdent(seg) ==
    /\ IsIdentChars(seg)
    /\ (\A i \in 1..Len(seg) : seg[i] \in Digits) => IsNumericIdent(seg)

NoVersion == [ok |-> FALSE]

\* version_str.parse::<Version>(): MAJOR.MINOR.PATCH[-PRE][+BUILD]
ParseVersion(s) ==
    LET plus   == FirstIndexIn(s, {"+"})
        left   == IF plus = 0 THEN s ELSE SubSeq(s, 1, plus - 1)
        build  == IF plus = 0 THEN <<>> ELSE SubSeq(s, plus + 1, Len(s))
        dash   == FirstIndexIn(left, {"-"})
        core   == IF dash = 0 THEN left ELSE SubSeq(left, 1, dash - 1)
        pre    == IF dash = 0 THEN <<>> ELSE SubSeq(left, dash + 1, Len(left))
        nums   == SplitOn(core, ".")
        pres   == SplitOn(pre, ".")
        builds == SplitOn(build, ".")
    IN  IF /\ Len(nums) = 3
           /\ \A i \in 1..3 : IsNumericIdent(nums[i])
           /\ dash # 0 => \A i \in 1..Len(pres) : IsPreIdent(pres[i])
           /\ plus # 0 => \A i \in 1..Len(builds) : IsIdentChars(builds[i])
        THEN [ok |-> TRUE, major |-> ParseNum(nums[1]),
              minor |-> ParseNum(nums[2]), patch |-> ParseNum(nums[3])]
        ELSE NoVersion

\* release strings a build may carry: two that parse, two that do not
VersionSamples ==
    { <<"0", ".", "3", ".", "5">>,
      <<"1", ".", "1", "2", ".", "0", "-", "r", "c", ".", "1", "+", "b", "7">>,
      <<"1", ".", "2">>,
      <<"1", ".", "x", ".", "3">> }

-----------------------------------------------------------------------------
(* JSON values (serde_json::Value) and the values a caller hands to insert_prop *)

JNull == [kind |-> "Null"]
JBool(b) == [kind |-> "Bool", bool |-> b]
JNum(n) == [kind |-> "Number", num |-> n]
JStr(s) == [kind |-> "String", str |-> s]
JArray(items) == [kind |-> "Array", items |-> items]
JObject(fields) == [kind |-> "Object", fields |-> fields]

\* Result<T, Error>
Ok(v) == [ok |-> TRUE, val |-> v]
Err(e) == [ok |-> FALSE, err |-> e]

\* the values of type P: Serialize that a caller passes
PStr(s) == [ty |-> "str", str |-> s]
PI64(n) == [ty |-> "i64", num |-> n]
PF64NaN == [ty |-> "f64", nan |-> TRUE]
PVecStr(items) == [ty |-> "vec", items |-> items]
\* a HashMap whose keys are tuples: serde_json refuses it ("key must be a string")
PMapTupleKey == [ty |-> "map_tuple_key"]

\* serde_json::to_value(prop)
ToValue(prop) ==
    CASE prop.ty = "str" -> Ok(JStr(prop.str))
      [] prop.ty = "i64" -> Ok(JNum(prop.num))
      [] prop.ty = "f64" -> Ok(JNull)   \* a NaN has no JSON number: Value::Null
      [] prop.ty = "vec" ->
            Ok(JArray([i \in 1..Len(prop.items) |-> JStr(prop.items[i])]))
      [] prop.ty = "map_tuple_key" -> Err("Serialization")

\* HashMap::insert: the key's value is replaced, the other keys are kept
MapInsert(m, k, v) == [x \in DOMAIN m \cup {k} |-> IF x = k THEN v ELSE m[x]]

EmptyMap == [x \in {} |-> JNull]

None == [some |-> FALSE]
Some(v) == [some |-> TRUE, val |-> v]

-----------------------------------------------------------------------------
(* Properties, Event, Exception *)

\* env!("CARGO_PKG_NAME") in event.rs, the literal in lib.rs
PkgName == <<"p", "o", "s", "t", "h", "o", "g", "-", "r", "s">>

\* os_info::get() on the host
OsType == "Linux"
OsVersion == "Unknown"

\* Properties::new(distinct_id)
PropertiesNew(distinct_id) ==
    [distinct_id     |-> distinct_id,
     props           |-> EmptyMap,
     lib             |-> PkgName,
     lib_version     |-> version_str,
     os              |-> OsType,
     os_version      |-> OsVersion,
     exception_level |-> None,
     exception_list  |-> None]

\* Event::new(event, distinct_id)
EventNew(event, distinct_id) ==
    [event |-> event, properties |-> PropertiesNew(distinct_id), timestamp |-> None]

\* a variant of StoreProp that keeps the value a key already has
StoreProp_KeepFirst(props, key, as_json) ==
    IF key \in DOMAIN props THEN props ELSE MapInsert(props, key, as_json)

\* the assignment insert_prop makes to self.properties.props
StoreProp(props, key, as_json) == MapInsert(props, key, as_json)

\* a variant of InsertProp that stores null under the key before it reports
\* the serialization error
InsertProp_NullOnError(self, key, prop) ==
    LET as_json == ToValue(prop)
    IN  IF ~as_json.ok
        THEN [result |-> Err("Serialization"),
              self   |-> [self EXCEPT !.properties.props = MapInsert(@, key, JNull)]]
        ELSE [result |-> Ok("unit"),
              self   |-> [self EXCEPT !.properties.props =
                                         MapInsert(@, key, as_json.val)]]

\* insert_prop(key, prop) on an Event or an Exception: the result and the
\* object afterwards
InsertProp(self, key, prop) ==
    LET as_json == ToValue(prop)
    IN  IF ~as_json.ok
        THEN [result |-> Err("Serialization"), self |-> self]
        ELSE [result |-> Ok("unit"),
              self   |-> [self EXCEPT !.properties.props =
                                         StoreProp(@, key, as_json.val)]]

\* Exception::parse_exception_type(exception), from the failure's two strings
ParseExceptionType(failure) ==
    LET dbg   == failure.dbg
        value == failure.display
        cut   == FirstIndexIn(dbg, {" ", "(", "{", "\r", "\n"})
    IN  IF dbg = DebugStr(value)
        THEN <<"E", "r", "r", "o", "r">>
        ELSE Trim(IF cut = 0 THEN dbg ELSE SubSeq(dbg, 1, cut - 1))

\* the descriptor set_exception_list builds
ExceptionInfo(failure) ==
    [type      |-> JStr(ParseExceptionType(failure)),
     value     |-> JStr(failure.display),
     mechanism |-> JObject([handled |-> JBool(TRUE), synthetic |-> JBool(FALSE)])]

\* with_exception_level(level)
WithExceptionLevel(self, level) ==
    [self EXCEPT !.properties.exception_level = level]

\* set_exception_list(exception)
SetExceptionList(self, failure) ==
    [self EXCEPT !.properties.exception_list =
                    Some(JArray(<<JObject(ExceptionInfo(failure))>>))]

\* Exception::new(exception, distinct_id)
ExceptionNew(failure, distinct_id) ==
    SetExceptionList(
        WithExceptionLevel(
            [properties |-> PropertiesNew(distinct_id), timestamp |-> None],
            Some("error")),
        failure)

\* a variant of ToEvent that forgets to copy the Exception's properties
ToEvent_FreshProperties(self) ==
    LET event == EventNew("$exception", self.properties.distinct_id)
    IN  [event EXCEPT !.timestamp = self.timestamp]

\* Exception::to_event(&self)
ToEvent(self) ==
    LET event == EventNew("$exception", self.properties.distinct_id)
    IN  [event EXCEPT !.timestamp = self.timestamp, !.properties = self.properties]

-----------------------------------------------------------------------------
(* InnerEvent *)

\* the three numeric inserts, made only when the release string parses
InsertVersionParts(props, version) ==
    IF version.ok
    THEN MapInsert(
             MapInsert(
                 MapInsert(props, "$lib_version__major", JNum(version.major)),
                 "$lib_version__minor", JNum(version.minor)),
             "$lib_version__patch", JNum(version.patch))
    ELSE props

\* a variant of InsertLibProps that keeps a value the user stored under the
\* same key
InsertLibProps_KeepUser(props) ==
    LET withName == IF "$lib_name" \in DOMAIN props THEN props
                    ELSE MapInsert(props, "$lib_name", JStr(PkgName))
    IN  IF "$lib_version" \in DOMAIN withName THEN withName
        ELSE MapInsert(withName, "$lib_version", JStr(version_str))

\* the two inserts InnerEvent::new always makes
InsertLibProps(props) ==
    MapInsert(MapInsert(props, "$lib_name", JStr(PkgName)),
              "$lib_version", JStr(version_str))

\* InnerEvent::new(event, api_key)
InnerEventNew(event, api_key) ==
    [api_key    |-> api_key,
     event      |-> event.event,
     properties |-> [event.properties EXCEPT !.props =
                        InsertVersionParts(InsertLibProps(@),
                                           ParseVersion(version_str))],
     timestamp  |-> event.timestamp]

-----------------------------------------------------------------------------
(* Failures: a value of type &dyn std::error::Error is its Debug and its    *)
(* Display string                                                          *)

\* an error that is only a message (anyhow::msg): Debug formats the string
MsgFailure(msg) == [dbg |-> DebugStr(msg), display |-> msg]

\* Error::Panic(msg) of lib.rs, SyntheticError::Panic(msg) of client/mod.rs:
\* derived Debug, and Display "Panic: {msg}"
PanicFailure(msg) ==
    [dbg     |-> <<"P", "a", "n", "i", "c", "(">> \o DebugStr(msg) \o <<")">>,
     display |-> <<"P", "a", "n", "i", "c", ":", " ">> \o msg]

\* an error struct with a derived Debug: Bad { k: 1 }, Display "bad"
StructFailure ==
    [dbg     |-> <<"B", "a", "d", " ", "{", " ", "k", ":", " ", "1", " ", "}">>,
     display |-> <<"b", "a", "d">>]

Boom == <<"b", "o", "o", "m">>

SampleFailures ==
    { MsgFailure(<<"o", "o", "p", "s">>), PanicFailure(Boom), StructFailure }

-----------------------------------------------------------------------------
(* The inputs of the data model's operations *)

ReservedKeys ==
    { "$lib", "$lib_version", "$lib_name",
      "$lib_version__major", "$lib_version__minor", "$lib_version__patch" }

\* the keys a caller passes to insert_prop: any string, reserved ones too
SampleKeys == { "key1", "$lib", "$lib_name", "$lib_version__major" }

Value1 == <<"v", "a", "l", "u", "e", "1">>

\* the values a caller passes to insert_prop; the last one does not serialize
SampleProps == { PStr(Value1), PF64NaN, PMapTupleKey }

SampleIds == {"id", "1234"}

SampleNames == {"signup"}

SampleLevels == { Some("warning") }

ApiKey == "test_api_key"

-----------------------------------------------------------------------------
(* The wire format: serde's derived Serialize of InnerEvent and Properties  *)

\* a JSON string whose text the model never takes apart
JText(s) == [kind |-> "String", text |-> s]

OptionJson(o) == IF o.some THEN o.val ELSE JNull

\* Properties as a JSON object: the renamed fields, and the two optional
\* fields skipped when they are None
PropertiesJson(p) ==
    LET keys == {"distinct_id", "props", "$lib", "$lib_version", "$os", "$os_version"}
                  \cup (IF p.exception_level.some THEN {"$exception_level"} ELSE {})
                  \cup (IF p.exception_list.some THEN {"$exception_list"} ELSE {})
    IN  JObject([k \in keys |->
            CASE k = "distinct_id"      -> JText(p.distinct_id)
              [] k = "props"            -> JObject(p.props)
              [] k = "$lib"             -> JStr(p.lib)
              [] k = "$lib_version"     -> JStr(p.lib_version)
              [] k = "$os"              -> JText(p.os)
              [] k = "$os_version"      -> JText(p.os_version)
              [] k = "$exception_level" -> JText(p.exception_level.val)
              [] k = "$exception_list"  -> p.exception_list.val])

\* InnerEvent as a JSON object
InnerEventJson(e) ==
    JObject([api_key    |-> JText(e.api_key),
             event      |-> JText(e.event),
             properties |-> PropertiesJson(e.properties),
             timestamp  |-> OptionJson(e.timestamp)])

\* a variant of ToJsonString that fails on every document
ToJsonString_Fails(doc) == Err("Serialization")

\* serde_json::to_string(&inner_event) and serde_json::to_string(&events): the
\* JSON text is kept as the document it encodes.  It is Ok for every value of
\* these types: the map keys are strings, the numbers are finite, and no field
\* has a Serialize of its own that can fail.
ToJsonString(doc) == Ok(doc)

-----------------------------------------------------------------------------
(* The capture client *)

\* the transport's answer to one send: reqwest's send() returns Ok or Err
SendOutcomes == {"Ok", "Err"}

\* one POST handed to the transport, and what came back
SendAttempt(opts, body, outcome) ==
    [url          |-> opts.api_endpoint,
     content_type |-> "application/json",
     body         |-> body,
     outcome      |-> outcome]

\* a capture that ended in a panic: lib.rs expects the serialization
Panicked == [ok |-> FALSE, panic |-> "unwrap here is safe"]

\* a variant of Capture that sends a second time when the first send fails
Capture_RetryOnce(opts, event, outcomes) ==
    LET body  == InnerEventJson(InnerEventNew(event, opts.api_key))
        first == SendAttempt(opts, body, outcomes[1])
    IN  IF outcomes[1] = "Ok"
        THEN [sends |-> <<first>>, result |-> Ok("unit")]
        ELSE [sends |-> <<first, SendAttempt(opts, body, outcomes[1])>>,
              result |-> Err("Connection")]

\* Client::capture(event): the sends it made and what it returned.  outcomes
\* holds the transport's answers, in order.
Capture(opts, event, outcomes) ==
    LET inner_event == InnerEventNew(event, opts.api_key)
        payload     == ToJsonString(InnerEventJson(inner_event))
    IN  IF ~payload.ok
        THEN [sends  |-> <<>>,
              result |-> IF variant = "lib" THEN Panicked ELSE Err("Serialization")]
        ELSE [sends  |-> <<SendAttempt(opts, payload.val, outcomes[1])>>,
              result |-> IF outcomes[1] = "Ok" THEN Ok("unit") ELSE Err("Connection")]

\* a variant of CaptureEach that goes on after a failed capture and returns
\* what the last capture returned
RECURSIVE CaptureEach_KeepGoing(_, _, _)
CaptureEach_KeepGoing(opts, events, outcomes) ==
    IF events = <<>> THEN [sends |-> <<>>, result |-> Ok("unit")]
    ELSE LET first == Capture(opts, Head(events), outcomes)
             rest  == CaptureEach_KeepGoing(opts, Tail(events), Tail(outcomes))
         IN  [sends  |-> first.sends \o rest.sends,
              result |-> IF Len(events) = 1 THEN first.result ELSE rest.result]

\* lib.rs: for event in events { self.capture(event)?; } Ok(())
RECURSIVE CaptureEach(_, _, _)
CaptureEach(opts, events, outcomes) ==
    IF events = <<>> THEN [sends |-> <<>>, result |-> Ok("unit")]
    ELSE LET first == Capture(opts, Head(events), outcomes)
         IN  IF ~first.result.ok THEN first
             ELSE LET rest == CaptureEach(opts, Tail(events), Tail(outcomes))
                  IN  [sends |-> first.sends \o rest.sends, result |-> rest.result]

\* blocking.rs: the events as one JSON array, sent once
CaptureArray(opts, events, outcomes) ==
    LET inner_events == [i \in 1..Len(events) |-> InnerEventNew(events[i], opts.api_key)]
        payload      == ToJsonString(JArray([i \in 1..Len(events) |->
                                                InnerEventJson(inner_events[i])]))
    IN  IF ~payload.ok
        THEN [sends |-> <<>>, result |-> Err("Serialization")]
        ELSE [sends  |-> <<SendAttempt(opts, payload.val, outcomes[1])>>,
              result |-> IF outcomes[1] = "Ok" THEN Ok("unit") ELSE Err("Connection")]

\* Client::capture_batch(events)
CaptureBatch(opts, events, outcomes) ==
    IF variant = "lib" THEN CaptureEach(opts, events, outcomes)
    ELSE CaptureArray(opts, events, outcomes)

\* Client::capture_exception(exception)
CaptureException(opts, exception, outcomes) ==
    Capture(opts, ToEvent(exception), outcomes)

\* Client::capture_exception_batch(exceptions): lib.rs calls capture_exception
\* on each, blocking.rs converts them all and calls capture_batch
CaptureExceptionBatch(opts, exceptions, outcomes) ==
    CaptureBatch(opts, [i \in 1..Len(exceptions) |-> ToEvent(exceptions[i])], outcomes)

-----------------------------------------------------------------------------
(* The panic hook *)

BoxAny == <<"B", "o", "x", "<", "A", "n", "y", ">">>

\* message_from_panic_info(info): a &'static str or a String payload is the
\* message, any other payload is "Box<Any>"
MessageFromPanicInfo(info) ==
    IF info.payload \in {"str", "String"} THEN info.msg ELSE BoxAny

\* exception_from_panic_info(info, distinct_id)
ExceptionFromPanicInfo(info, distinct_id) ==
    ExceptionNew(PanicFailure(MessageFromPanicInfo(info)), distinct_id)

\* a variant of InstallHook whose closure drops the hook it took: it never
\* calls `next`, so only the standard hook is left behind it
InstallHook_Replace(h, c) == [chain |-> <<c>>, base |-> "Default"]

\* panic::take_hook() then panic::set_hook(closure) in client(): the closure of
\* client c, holding the hook that was installed as its `next`
InstallHook(h, c) == [chain |-> <<c>> \o h.chain, base |-> h.base]

\* the user's on_panic_exception callback: it may enrich the Exception
RunCallback(callback, exception) ==
    InsertProp(exception, callback.key, callback.prop).self

\* a variant of HookBody that unwraps the capture's result: a failed capture
\* panics inside the hook and `next` is never called
HookBody_UnwrapCapture(c, opts, info, outcome) ==
    LET built    == ExceptionFromPanicInfo(info, opts.default_distinct_id)
        enriched == IF opts.on_panic_exception.some
                    THEN RunCallback(opts.on_panic_exception.val, built)
                    ELSE built
        captured == CaptureException(opts, enriched, <<outcome>>)
    IN  [records |->
            <<[what |-> "build", client |-> c, exception |-> built]>>
            \o (IF opts.on_panic_exception.some
                THEN <<[what |-> "callback", client |-> c, exception |-> enriched]>>
                ELSE <<>>)
            \o <<[what |-> "capture", client |-> c, exception |-> enriched,
                  sends |-> captured.sends, result |-> captured.result]>>
            \o (IF captured.result.ok THEN <<[what |-> "next", client |-> c]>>
                ELSE <<>>),
         returned |-> captured.result.ok]

\* a variant of HookBody that calls `next` before it captures
HookBody_NextFirst(c, opts, info, outcome) ==
    LET built    == ExceptionFromPanicInfo(info, opts.default_distinct_id)
        enriched == IF opts.on_panic_exception.some
                    THEN RunCallback(opts.on_panic_exception.val, built)
                    ELSE built
        captured == CaptureException(opts, enriched, <<outcome>>)
    IN  [records |->
            <<[what |-> "build", client |-> c, exception |-> built],
              [what |-> "next", client |-> c]>>
            \o (IF opts.on_panic_exception.some
                THEN <<[what |-> "callback", client |-> c, exception |-> enriched]>>
                ELSE <<>>)
            \o <<[what |-> "capture", client |-> c, exception |-> enriched,
                  sends |-> captured.sends, result |-> captured.result]>>,
         returned |-> TRUE]

\* the closure client() installs, run for client c on a panic: what it does,
\* in order, up to its call of `next`, and whether it got that far (a capture
\* that panics inside the hook ends the process before `next`)
HookBody(c, opts, info, outcome) ==
    LET built    == ExceptionFromPanicInfo(info, opts.default_distinct_id)
        enriched == IF opts.on_panic_exception.some
                    THEN RunCallback(opts.on_panic_exception.val, built)
                    ELSE built
        captured == CaptureException(opts, enriched, <<outcome>>)
        died     == captured.result = Panicked
    IN  [records |->
            <<[what |-> "build", client |-> c, exception |-> built]>>
            \o (IF opts.on_panic_exception.some
                THEN <<[what |-> "callback", client |-> c, exception |-> enriched]>>
                ELSE <<>>)
            \o <<[what |-> "capture", client |-> c, exception |-> enriched,
                  sends |-> captured.sends, result |-> captured.result]>>
            \o (IF died THEN <<>> ELSE <<[what |-> "next", client |-> c]>>),
         returned |-> ~died]

-----------------------------------------------------------------------------
(* The data model as a state machine: one Event or Exception under          *)
(* construction at a time                                                  *)

NoObj == [kind |-> "none"]

NoCall == [op |-> "none"]

NoPanic == [state |-> "none"]

\* the hook that is installed when the program starts to construct clients:
\* no client's closure, only the hook that was there before
OrigHook == [chain |-> <<>>, base |-> "Orig"]

HookIdle ==
    /\ clients = <<>>
    /\ hook = OrigHook
    /\ panicking = NoPanic
    /\ trace = <<>>
    /\ call = NoCall
    /\ installing = <<>>

Init ==
    /\ version_str \in VersionSamples
    /\ variant \in {"lib", "blocking"}
    /\ obj = NoObj
    /\ written = EmptyMap
    /\ converted = <<>>
    /\ inner = None
    /\ last = NoCall
    /\ inserts = 0
    /\ HookIdle

\* let mut event = Event::new(name, id)
NewEvent ==
    \E name \in SampleNames, id \in SampleIds :
        /\ obj.kind = "none"
        /\ obj' = [kind |-> "Event", val |-> EventNew(name, id),
                   made |-> [name |-> name, id |-> id], levelled |-> FALSE]
        /\ written' = EmptyMap
        /\ converted' = <<>>
        /\ inner' = None
        /\ inserts' = 0
        /\ last' = [op |-> "Event::new"]
        /\ UNCHANGED <<version_str, variant, hookVars>>

\* let mut exception = Exception::new(&failure, id)
NewException ==
    \E failure \in SampleFailures, id \in SampleIds :
        /\ obj.kind = "none"
        /\ obj' = [kind |-> "Exception", val |-> ExceptionNew(failure, id),
                   made |-> [failure |-> failure, id |-> id], levelled |-> FALSE]
        /\ written' = EmptyMap
        /\ converted' = <<>>
        /\ inner' = None
        /\ inserts' = 0
        /\ last' = [op |-> "Exception::new"]
        /\ UNCHANGED <<version_str, variant, hookVars>>

\* obj.insert_prop(key, prop), on an Event or on an Exception
CallInsertProp ==
    \E key \in SampleKeys, prop \in SampleProps :
        LET r == InsertProp(obj.val, key, prop)
        IN  /\ obj.kind # "none"
            /\ inserts < MaxInserts
            /\ obj' = [obj EXCEPT !.val = r.self]
            /\ written' = IF r.result.ok THEN MapInsert(written, key, prop)
                          ELSE written
            /\ converted' = IF r.result.ok THEN <<>> ELSE converted
            /\ inner' = None
            /\ inserts' = inserts + 1
            /\ last' = [op |-> "insert_prop", key |-> key, prop |-> prop,
                        result |-> r.result,
                        replaced |-> IF r.result.ok
                                        /\ key \in DOMAIN obj.val.properties.props
                                     THEN Some(obj.val.properties.props[key])
                                     ELSE None]
            /\ UNCHANGED <<version_str, variant, hookVars>>

\* exception = exception.with_exception_level(level)
CallWithExceptionLevel ==
    \E level \in SampleLevels :
        /\ obj.kind = "Exception"
        /\ obj.val.properties.exception_level # level
        /\ obj' = [obj EXCEPT !.val = WithExceptionLevel(@, level),
                              !.levelled = TRUE]
        /\ converted' = <<>>
        /\ inner' = None
        /\ last' = [op |-> "with_exception_level"]
        /\ UNCHANGED <<version_str, variant, written, inserts, hookVars>>

\* let event = exception.to_event()
CallToEvent ==
    /\ obj.kind = "Exception"
    /\ Len(converted) < MaxConversions
    /\ converted' = Append(converted, ToEvent(obj.val))
    /\ inner' = None
    /\ last' = [op |-> "to_event"]
    /\ UNCHANGED <<version_str, variant, obj, written, inserts, hookVars>>

\* InnerEvent::new(event, api_key) on the Event under construction, which it
\* consumes
NewInnerEvent ==
    /\ obj.kind = "Event"
    /\ inner' = Some(InnerEventNew(obj.val, ApiKey))
    /\ obj' = NoObj
    /\ last' = [op |-> "InnerEvent::new", event |-> obj.val]
    /\ UNCHANGED <<version_str, variant, written, converted, inserts, hookVars>>

\* InnerEvent::new(event, api_key) on the Event that to_event returned last
NewInnerEventOfConverted ==
    /\ converted # <<>>
    /\ inner' = Some(InnerEventNew(converted[Len(converted)], ApiKey))
    /\ converted' = SubSeq(converted, 1, Len(converted) - 1)
    /\ last' = [op |-> "InnerEvent::new", event |-> converted[Len(converted)]]
    /\ UNCHANGED <<version_str, variant, obj, written, inserts, hookVars>>

Next ==
    \/ NewEvent
    \/ NewException
    \/ CallInsertProp
    \/ CallWithExceptionLevel
    \/ CallToEvent
    \/ NewInnerEvent
    \/ NewInnerEventOfConverted

Spec == Init /\ [][Next]_vars

-----------------------------------------------------------------------------
(* Clients, panics and capture calls as a state machine: one thread         *)
(* constructs clients, captures and panics                                  *)

ApiEndpoint == "https://us.i.posthog.com/capture/"

\* uuid::Uuid::new_v4().to_string(): a fresh id for each client
DefaultDistinctId(c) ==
    CASE c = 1 -> "uuid-1" [] c = 2 -> "uuid-2" [] c = 3 -> "uuid-3"
      [] c = 4 -> "uuid-4" [] OTHER -> "uuid-n"

\* on_panic_exception: none, or a callback that inserts one property
SampleCallbacks == { None, Some([key |-> "key1", prop |-> PStr(Value1)]) }

\* the payloads of a panic: panic!("boom"), a formatted String, any other value
SamplePanics ==
    { [payload |-> "str", msg |-> Boom],
      [payload |-> "String", msg |-> <<"o", "o", "p", "s">>],
      [payload |-> "other", msg |-> <<>>] }

SampleEvents ==
    { InsertProp(EventNew("signup", "user-42"), "plan", PStr(<<"p", "r", "o">>)).self,
      EventNew("signup", "1234") }

SampleExceptions ==
    { ExceptionNew(StructFailure, "id"),
      ExceptionNew(MsgFailure(<<"o", "o", "p", "s">>), "1234") }

\* the batches of at most MaxBatch elements of S
Batches(S) == UNION { [1..n -> S] : n \in 0..MaxBatch }

\* the transport's answers to a call that hands it at most n bodies
Outcomes(n) == [1..(IF n = 0 THEN 1 ELSE n) -> SendOutcomes]

HookInit ==
    /\ version_str \in { <<"0", ".", "3", ".", "5">>, <<"1", ".", "2">> }
    /\ variant \in {"lib", "blocking"}
    /\ obj = NoObj
    /\ written = EmptyMap
    /\ converted = <<>>
    /\ inner = None
    /\ last = NoCall
    /\ inserts = 0
    /\ HookIdle

\* let client = client(options)
ConstructClient ==
    \E enable \in BOOLEAN, callback \in SampleCallbacks :
        LET c    == Len(clients) + 1
            opts == [api_endpoint           |-> ApiEndpoint,
                     api_key                |-> ApiKey,
                     default_distinct_id    |-> DefaultDistinctId(c),
                     enable_panic_capturing |-> enable,
                     on_panic_exception     |-> callback]
        IN  /\ Len(clients) < MaxClients
            /\ panicking.state # "running"
            /\ clients' = Append(clients, opts)
            /\ hook' = IF opts.enable_panic_capturing THEN InstallHook(hook, c)
                       ELSE hook
            /\ installing' = Append(installing,
                                 [pc |-> IF opts.enable_panic_capturing
                                         THEN "done" ELSE "off"])
            /\ panicking' = NoPanic
            /\ trace' = <<>>
            /\ call' = NoCall
            /\ UNCHANGED <<version_str, variant, dataVars>>

\* a panic: the runtime calls the installed hook with the payload
RaisePanic ==
    \E info \in SamplePanics :
        /\ panicking.state # "running"
        /\ panicking' = [state |-> "running", info |-> info,
                         todo |-> hook.chain, base |-> hook.base]
        /\ trace' = <<>>
        /\ call' = NoCall
        /\ UNCHANGED <<version_str, variant, dataVars, clients, hook, installing>>

\* the closure of the next client in the chain runs, up to its call of `next`
RunClientHook ==
    \E outcome \in SendOutcomes :
        /\ panicking.state = "running"
        /\ panicking.todo # <<>>
        /\ LET c    == Head(panicking.todo)
               body == HookBody(c, clients[c], panicking.info, outcome)
           IN  /\ trace' = trace \o body.records
               /\ panicking' = IF body.returned
                               THEN [panicking EXCEPT !.todo = Tail(@)]
                               ELSE [state |-> "aborted", info |-> panicking.info]
        /\ UNCHANGED <<version_str, variant, dataVars, clients, hook, call, installing>>

\* the last `next` is the hook that was installed before the first client
RunBaseHook ==
    /\ panicking.state = "running"
    /\ panicking.todo = <<>>
    /\ trace' = Append(trace, [what |-> "base", hook |-> panicking.base])
    /\ panicking' = [state |-> "done", info |-> panicking.info]
    /\ UNCHANGED <<version_str, variant, dataVars, clients, hook, call, installing>>

\* what every public capture call leaves unchanged
AfterCall ==
    /\ UNCHANGED <<panicking, trace>>
    /\ UNCHANGED <<version_str, variant, dataVars, clients, hook, installing>>

\* client.capture(event)
CallCapture ==
    \E c \in 1..Len(clients), event \in SampleEvents, outcomes \in Outcomes(1) :
        LET r == Capture(clients[c], event, outcomes)
        IN  /\ panicking = NoPanic
            /\ call = NoCall
            /\ call' = [op |-> "capture", events |-> <<event>>,
                        sends |-> r.sends, result |-> r.result]
            /\ AfterCall

\* client.capture_batch(events)
CallCaptureBatch ==
    \E c \in 1..Len(clients), events \in Batches(SampleEvents) :
        \E outcomes \in Outcomes(Len(events)) :
            LET r == CaptureBatch(clients[c], events, outcomes)
            IN  /\ panicking = NoPanic
                /\ call = NoCall
                /\ call' = [op |-> "capture_batch", events |-> events,
                            sends |-> r.sends, result |-> r.result]
                /\ AfterCall

\* client.capture_exception(exception)
CallCaptureException ==
    \E c \in 1..Len(clients), exception \in SampleExceptions,
       outcomes \in Outcomes(1) :
        LET r == CaptureException(clients[c], exception, outcomes)
        IN  /\ panicking = NoPanic
            /\ call = NoCall
            /\ call' = [op |-> "capture_exception",
                        events |-> <<ToEvent(exception)>>,
                        sends |-> r.sends, result |-> r.result]
            /\ AfterCall

\* client.capture_exception_batch(exceptions)
CallCaptureExceptionBatch ==
    \E c \in 1..Len(clients), exceptions \in Batches(SampleExceptions) :
        \E outcomes \in Outcomes(Len(exceptions)) :
            LET r == CaptureExceptionBatch(clients[c], exceptions, outcomes)
            IN  /\ panicking = NoPanic
                /\ call = NoCall
                /\ call' = [op |-> "capture_exception_batch",
                            events |-> [i \in 1..Len(exceptions) |->
                                           ToEvent(exceptions[i])],
                            sends |-> r.sends, result |-> r.result]
                /\ AfterCall

HookNext ==
    \/ ConstructClient
    \/ RaisePanic
    \/ RunClientHook
    \/ RunBaseHook
    \/ CallCapture
    \/ CallCaptureBatch
    \/ CallCaptureException
    \/ CallCaptureExceptionBatch

HookSpec == HookInit /\ [][HookNext]_vars

-----------------------------------------------------------------------------
(* Clients constructed by several threads at once: client() is three steps, *)
(* the Client value, panic::take_hook() and panic::set_hook().  The hook    *)
(* lives behind a lock that a panic holds while the hook runs, so that       *)
(* take_hook and set_hook wait for a running hook to finish.                *)

\* what panic::take_hook() leaves registered: the standard hook
DefaultHook == [chain |-> <<>>, base |-> "Default"]

\* the clients whose set_hook has returned
Installed == { c \in 1..Len(installing) : installing[c].pc = "done" }

\* no construction is between its first step and its last
AllFinished == \A c \in 1..Len(installing) : installing[c].pc \in {"off", "done"}

InstallInit ==
    /\ version_str = <<"0", ".", "3", ".", "5">>
    /\ variant \in {"lib", "blocking"}
    /\ obj = NoObj
    /\ written = EmptyMap
    /\ converted = <<>>
    /\ inner = None
    /\ last = NoCall
    /\ inserts = 0
    /\ HookIdle

\* a thread enters client(options) and builds the Client value
BeginClient ==
    \E enable \in BOOLEAN, callback \in SampleCallbacks :
        LET c    == Len(clients) + 1
            opts == [api_endpoint           |-> ApiEndpoint,
                     api_key                |-> ApiKey,
                     default_distinct_id    |-> DefaultDistinctId(c),
                     enable_panic_capturing |-> enable,
                     on_panic_exception     |-> callback]
        IN  /\ Len(clients) < MaxClients
            /\ panicking.state # "running"
            /\ clients' = Append(clients, opts)
            /\ installing' = Append(installing,
                                 [pc |-> IF opts.enable_panic_capturing
                                         THEN "take" ELSE "off"])
            /\ panicking' = NoPanic
            /\ trace' = <<>>
            /\ call' = NoCall
            /\ UNCHANGED <<version_str, variant, dataVars, hook>>

\* let next = panic::take_hook(): the thread of client c takes the registered
\* hook, and the standard hook is registered in its place
TakeHook ==
    \E c \in 1..Len(installing) :
        /\ installing[c].pc = "take"
        /\ panicking.state # "running"
        /\ installing' = [installing EXCEPT ![c] = [pc |-> "set", next |-> hook]]
        /\ hook' = DefaultHook
        /\ panicking' = NoPanic
        /\ trace' = <<>>
        /\ call' = NoCall
        /\ UNCHANGED <<version_str, variant, dataVars, clients>>

\* panic::set_hook(closure): the closure of client c, holding the hook the
\* thread took, replaces whatever is registered now
SetHook ==
    \E c \in 1..Len(installing) :
        /\ installing[c].pc = "set"
        /\ panicking.state # "running"
        /\ hook' = InstallHook(installing[c].next, c)
        /\ installing' = [installing EXCEPT ![c] = [pc |-> "done"]]
        /\ panicking' = NoPanic
        /\ trace' = <<>>
        /\ call' = NoCall
        /\ UNCHANGED <<version_str, variant, dataVars, clients>>

InstallNext ==
    \/ BeginClient
    \/ TakeHook
    \/ SetHook
    \/ RaisePanic
    \/ RunClientHook
    \/ RunBaseHook

InstallSpec == InstallInit /\ [][InstallNext]_vars

-----------------------------------------------------------------------------
(* The derived exception type as a state machine: Exception::new on failures *)
(* whose Debug string is any short string over the characters that matter  *)

\* the longest Debug string the failures of TypeSpec have
MaxDebugLen == 3

\* a letter or two, the characters the split and the trim look for, and the
\* quote that Debug puts around a string
TypeAlphabet == {"E", "r", " ", "\t", "(", "{", "\n", "\r", "\""}

\* the strings over the alphabet A of at most n characters
StringsUpTo(A, n) == UNION { [1..k -> A] : k \in 0..n }

\* the Display strings of the failures of TypeSpec
TypeDisplays == { <<>>, <<"E">> }

\* any type implementing std::error::Error: its Debug and its Display are
\* independent, hand-written or derived
TypeFailures ==
    SampleFailures
    \cup { [dbg |-> d, display |-> v] :
              d \in StringsUpTo(TypeAlphabet, MaxDebugLen), v \in TypeDisplays }

TypeInit ==
    /\ version_str = <<"0", ".", "3", ".", "5">>
    /\ variant = "lib"
    /\ obj = NoObj
    /\ written = EmptyMap
    /\ converted = <<>>
    /\ inner = None
    /\ last = NoCall
    /\ inserts = 0
    /\ HookIdle

\* exception = Exception::new(&failure, id), which derives the type
NewExceptionOfFailure ==
    \E failure \in TypeFailures :
        /\ obj.kind = "none"
        /\ obj' = [kind |-> "Exception", val |-> ExceptionNew(failure, "id"),
                   made |-> [failure |-> failure, id |-> "id"], levelled |-> FALSE]
        /\ last' = [op |-> "Exception::new"]
        /\ UNCHANGED <<version_str, variant, written, converted, inner, inserts,
                       hookVars>>

TypeNext == NewExceptionOfFailure

TypeSpec == TypeInit /\ [][TypeNext]_vars

-----------------------------------------------------------------------------
(* Properties of the data model *)

\* the keys InnerEvent::new injects for the build's release string
InjectedKeys ==
    {"$lib_name", "$lib_version"} \cup
    (IF ParseVersion(version_str).ok
     THEN {"$lib_version__major", "$lib_version__minor", "$lib_version__patch"}
     ELSE {})

\* C1: whatever insert_prop calls preceded it, the InnerEvent that
\* InnerEvent::new builds from an Event has props["$lib_name"] = "posthog-rs"
\* and props["$lib_version"] = the release string; the injected values replace
\* a user value of the same name, and every key that is not injected keeps the
\* value the Event had for it (no other key appears or disappears).
C1_LibPropsAlwaysInjected ==
    last.op = "InnerEvent::new" =>
        LET before == last.event.properties.props
            after  == inner.val.properties.props
        IN  /\ inner.some
            /\ DOMAIN after = DOMAIN before \cup InjectedKeys
            /\ after["$lib_name"] =
                   JStr(<<"p", "o", "s", "t", "h", "o", "g", "-", "r", "s">>)
            /\ after["$lib_version"] = JStr(version_str)
            /\ \A k \in DOMAIN before \ InjectedKeys : after[k] = before[k]

\* C1's case: the Event held a user value under "$lib_name" and one under an
\* ordinary key when InnerEvent::new consumed it
C1_Witness ==
    /\ last.op = "InnerEvent::new"
    /\ {"$lib_name", "key1"} \subseteq DOMAIN last.event.properties.props
    /\ last.event.properties.props["$lib_name"] = JStr(Value1)
    /\ inner.val.properties.props["key1"] = JStr(Value1)

\* C2: reserved keys are never user-writable through insert_prop: while an
\* Event or Exception is being built (before InnerEvent::new runs) its props
\* holds no reserved key.
C2_ReservedKeysNotUserWritable ==
    obj.kind # "none" => DOMAIN obj.val.properties.props \cap ReservedKeys = {}

\* C3: after any sequence of insert_prop calls on an Event or an Exception,
\* props holds exactly the keys that a successful call wrote, each with the
\* JSON value of the prop of the last successful call under that key (last
\* write wins, the other keys keep their values).
C3_InsertPropRoundTrip ==
    obj.kind # "none" =>
        LET props == obj.val.properties.props
        IN  /\ DOMAIN props = DOMAIN written
            /\ \A k \in DOMAIN props : props[k] = ToValue(written[k]).val
            /\ (last.op = "insert_prop" /\ last.result.ok) =>
                   props[last.key] = ToValue(last.prop).val

\* C3's case: a successful insert under a key that held another value, beside
\* a second key
C3_Witness ==
    /\ obj.kind # "none"
    /\ last.op = "insert_prop"
    /\ last.result.ok
    /\ last.prop = PF64NaN
    /\ last.replaced = Some(JStr(Value1))
    /\ obj.val.properties.props[last.key] = JNull
    /\ Cardinality(DOMAIN obj.val.properties.props) = 2

\* C4: an insert_prop whose value fails to serialize returns
\* Error::Serialization and leaves the whole Event or Exception (props, any
\* previous value under the same key, every fixed field) as it was.
C4_FailedInsertChangesNothing ==
    [][ (last'.op = "insert_prop" /\ inserts' = inserts + 1
            /\ ~ToValue(last'.prop).ok)
        => (/\ last'.result = Err("Serialization")
            /\ obj'.val = obj.val
            /\ obj'.kind = obj.kind) ]_vars

\* C4's case: a failed insert on an Exception under a key that already holds
\* a value
C4_Witness ==
    /\ obj.kind = "Exception"
    /\ last.op = "insert_prop"
    /\ last.prop = PMapTupleKey
    /\ last.result = Err("Serialization")
    /\ last.key \in DOMAIN obj.val.properties.props

\* C5: after InnerEvent::new, if the release string parses as X.Y.Z the three
\* numeric keys hold X, Y and Z; if it does not parse, none of the three keys
\* is present in props.
C5_VersionParts ==
    last.op = "InnerEvent::new" =>
        LET version == ParseVersion(version_str)
            props   == inner.val.properties.props
        IN  IF version.ok
            THEN /\ props["$lib_version__major"] = JNum(version.major)
                 /\ props["$lib_version__minor"] = JNum(version.minor)
                 /\ props["$lib_version__patch"] = JNum(version.patch)
            ELSE DOMAIN props \cap {"$lib_version__major", "$lib_version__minor",
                                    "$lib_version__patch"} = {}

\* C6: every Event that to_event returns for an Exception built by
\* Exception::new(failure, id) is named "$exception", carries the distinct id
\* id, the level "error" (unless with_exception_level changed it) and an
\* exception_list of exactly one descriptor with mechanism.handled = true and
\* mechanism.synthetic = false; repeated calls return equal Events, which
\* carry the properties the Exception still has.
C6_ToEvent ==
    obj.kind = "Exception" =>
        \A i \in 1..Len(converted) :
            LET e == converted[i]
            IN  /\ e.event = "$exception"
                /\ e.properties.distinct_id = obj.made.id
                /\ ~obj.levelled => e.properties.exception_level = Some("error")
                /\ e.properties.exception_list.some
                /\ LET list == e.properties.exception_list.val
                   IN  /\ list.kind = "Array"
                       /\ Len(list.items) = 1
                       /\ list.items[1].fields.mechanism.fields.handled = JBool(TRUE)
                       /\ list.items[1].fields.mechanism.fields.synthetic = JBool(FALSE)
                       /\ list.items[1].fields.value = JStr(obj.made.failure.display)
                /\ e = converted[1]
                /\ e.properties = obj.val.properties
                /\ e.timestamp = obj.val.timestamp

\* C6's case: to_event called twice on a fresh Exception::new(failure, "id")
C6_Witness ==
    /\ obj.kind = "Exception"
    /\ ~obj.levelled
    /\ obj.made.id = "id"
    /\ inserts = 0
    /\ Len(converted) = 2

-----------------------------------------------------------------------------
(* Properties of the panic hook and of the capture calls *)

\* the places of the trace where the hooks did `what`
TracePos(what) == { i \in 1..Len(trace) : trace[i].what = what }

\* the places of the trace where the closure of client c captured
CapturesOf(c) == { i \in TracePos("capture") : trace[i].client = c }

\* the one client, constructed with panic capturing enabled, is handling or has
\* handled a panic with the message "boom"
C7_Case ==
    /\ Len(clients) = 1
    /\ clients[1].enable_panic_capturing
    /\ panicking.state \in {"running", "done"}
    /\ panicking.info = [payload |-> "str", msg |-> Boom]

\* C7: with one client constructed with panic capturing enabled, a panic with
\* the message "boom" makes the hook, in this order: build one Exception from
\* the payload and the client's default distinct id, whose descriptor value
\* contains "boom"; call the user callback on it if one is configured; make
\* exactly one capture_exception attempt with the (possibly enriched)
\* Exception; and only then call the previously installed hook, exactly once.
C7_HookOrder ==
    C7_Case =>
        LET opts     == clients[1]
            callback == opts.on_panic_exception
            n        == IF callback.some THEN 4 ELSE 3
        IN  /\ trace = <<>> => panicking.state = "running"
            /\ panicking.state = "done" => Len(trace) = n + 1
            /\ trace # <<>> =>
                /\ Len(trace) \in {n, n + 1}
                /\ trace[1].what = "build"
                /\ trace[1].client = 1
                /\ trace[1].exception.properties.distinct_id = opts.default_distinct_id
                /\ LET list == trace[1].exception.properties.exception_list.val
                   IN  /\ Len(list.items) = 1
                       /\ Contains(list.items[1].fields.value.str, Boom)
                /\ callback.some =>
                      /\ trace[2].what = "callback"
                      /\ trace[2].exception =
                            RunCallback(callback.val, trace[1].exception)
                /\ trace[n - 1].what = "capture"
                /\ trace[n - 1].exception = trace[n - 2].exception
                /\ Len(trace[n - 1].sends) = 1
                /\ trace[n - 1].sends[1].body.fields.event = JText("$exception")
                /\ trace[n - 1].sends[1].body.fields.properties.fields.props.fields
                      = InnerEventNew(ToEvent(trace[n - 1].exception), opts.api_key)
                            .properties.props
                /\ trace[n - 1].sends[1].body.fields.properties.fields["$exception_list"]
                      = trace[n - 1].exception.properties.exception_list.val
                /\ trace[n] = [what |-> "next", client |-> 1]
                /\ Len(trace) = n + 1 =>
                      trace[n + 1] = [what |-> "base", hook |-> "Orig"]

\* C7's case: the hook of the one client, which has a callback, has run to the
\* end for a panic with the message "boom"
C7_Witness ==
    /\ C7_Case
    /\ panicking.state = "done"
    /\ clients[1].on_panic_exception.some
    /\ Len(trace) = 5
    /\ "key1" \in DOMAIN trace[3].exception.properties.props

\* the closures the constructions so far must have left installed: the
\* capturing-enabled clients, the last constructed first
RECURSIVE EnabledClients(_)
EnabledClients(n) ==
    IF n = 0 THEN <<>>
    ELSE (IF clients[n].enable_panic_capturing THEN <<n>> ELSE <<>>)
         \o EnabledClients(n - 1)

\* C8: after any sequence of sequential client constructions, each construction
\* with enable_panic_capturing = true has installed one new hook that chains to
\* the hook installed before it and each construction with
\* enable_panic_capturing = false has left the installed hook unchanged; so a
\* later panic causes exactly one capture attempt by every capturing-enabled
\* client constructed, none by the others, and exactly one call of the hook
\* that was installed before the first client.
C8_HooksChain ==
    /\ hook.chain = EnabledClients(Len(clients))
    /\ hook.base = "Orig"
    /\ panicking.state = "done" =>
        /\ \A c \in 1..Len(clients) :
              IF clients[c].enable_panic_capturing
              THEN /\ Cardinality(CapturesOf(c)) = 1
                   /\ \A i \in CapturesOf(c) : Len(trace[i].sends) = 1
              ELSE CapturesOf(c) = {}
        /\ Cardinality(TracePos("base")) = 1
        /\ trace[Len(trace)] = [what |-> "base", hook |-> "Orig"]

\* C8's case: a panic handled after two constructions with capturing enabled
C8_Witness ==
    /\ Len(clients) = 2
    /\ clients[1].enable_panic_capturing
    /\ clients[2].enable_panic_capturing
    /\ panicking.state = "done"
    /\ hook.chain = <<2, 1>>

\* C9: inside the panic hook the result of capture_exception is discarded:
\* whatever it returns, the closure goes on to call the previously installed
\* hook, the hook never dies, and the hook that was installed before the first
\* client is called exactly once.
C9_CaptureFailureSwallowed ==
    /\ panicking.state # "aborted"
    /\ \A i \in TracePos("capture") :
          /\ i < Len(trace)
          /\ trace[i + 1] = [what |-> "next", client |-> trace[i].client]
    /\ panicking.state = "done" =>
          /\ Cardinality(TracePos("base")) = 1
          /\ trace[Len(trace)].what = "base"
          /\ Cardinality(TracePos("next")) = Len(hook.chain)

\* C9's case: a capture in the hook failed with a Connection error and the
\* panic was handled to the end
C9_Witness ==
    /\ panicking.state = "done"
    /\ \E i \in TracePos("capture") :
          /\ trace[i].result = Err("Connection")
          /\ trace[i].sends[1].outcome = "Err"

\* the sends of the last public capture call that the transport failed
FailedSends == { i \in 1..Len(call.sends) : call.sends[i].outcome = "Err" }

\* C10 as claimed: every call of a public capture operation (capture,
\* capture_batch, capture_exception, capture_exception_batch) performs at most
\* one send attempt, whatever the number of events in the call and whatever the
\* outcome of the attempt.
C10_AtMostOneSendPerCall ==
    /\ call.op # "none" => Len(call.sends) <= 1
    /\ \A i \in TracePos("capture") : Len(trace[i].sends) <= 1

\* C10, amended: a capture or capture_exception call performs at most one send
\* attempt, and so does a batch call of client/blocking.rs; a batch call of
\* lib.rs performs at most one send attempt per event, in batch order, and none
\* after a failed one.  No call repeats a failed attempt.
C10_SendsPerCall ==
    /\ \A i \in TracePos("capture") : Len(trace[i].sends) <= 1
    /\ call.op \in {"capture", "capture_exception"} => Len(call.sends) <= 1
    /\ call.op \in {"capture_batch", "capture_exception_batch"} =>
          IF variant = "blocking" THEN Len(call.sends) <= 1
          ELSE /\ Len(call.sends) <= Len(call.events)
               /\ \A i \in 1..Len(call.sends) :
                     /\ call.sends[i].body =
                           InnerEventJson(InnerEventNew(call.events[i], ApiKey))
                     /\ i < Len(call.sends) => call.sends[i].outcome = "Ok"
               /\ call.result.ok => Len(call.sends) = Len(call.events)
    /\ call.op # "none" =>
          /\ Cardinality(FailedSends) <= 1
          /\ FailedSends # {} => call.result = Err("Connection")
          /\ \A i \in FailedSends : i = Len(call.sends)

\* C10's case: a batch of two events in lib.rs, sent one by one, the second
\* send failing
C10_Witness ==
    /\ variant = "lib"
    /\ call.op = "capture_batch"
    /\ Len(call.events) = 2
    /\ Len(call.sends) = 2
    /\ call.sends[2].outcome = "Err"
    /\ call.result = Err("Connection")

-----------------------------------------------------------------------------
(* Properties of the batch calls and of capture's result *)

\* the last public capture call was a batch call
BatchCall == call.op \in {"capture_batch", "capture_exception_batch"}

\* the body of a send that carries event i of the last call alone
EventBody(i) == InnerEventJson(InnerEventNew(call.events[i], ApiKey))

\* the body of a send that carries every event of the last call as one array
ArrayBody == JArray([i \in 1..Len(call.events) |-> EventBody(i)])

\* every event of the last batch call was handed to the transport, and the
\* transport took it without error
AllHandedOver ==
    IF variant = "blocking"
    THEN /\ Len(call.sends) = 1
         /\ call.sends[1].body = ArrayBody
         /\ call.sends[1].outcome = "Ok"
    ELSE /\ Len(call.sends) = Len(call.events)
         /\ \A i \in 1..Len(call.sends) :
               /\ call.sends[i].body = EventBody(i)
               /\ call.sends[i].outcome = "Ok"

\* C11: capture_batch and capture_exception_batch return Ok only when every
\* event of the batch was handed to the transport without error; when a send
\* fails the call returns that first error (Connection), whatever the sends
\* before it did, and nothing is sent after it; the call never panics, for an
\* empty batch and after a partial delivery too.
C11_BatchFirstError ==
    BatchCall =>
        /\ call.result # Panicked
        /\ call.result \in {Ok("unit"), Err("Connection"), Err("Serialization")}
        /\ call.result.ok <=> AllHandedOver
        /\ FailedSends # {} =>
              /\ call.result = Err("Connection")
              /\ FailedSends = {Len(call.sends)}
        /\ call.events = <<>> =>
              /\ Len(call.sends) = (IF variant = "blocking" THEN 1 ELSE 0)
              /\ variant = "lib" => call.result.ok

\* C11's case: a batch of two exceptions in lib.rs whose first send fails; the
\* error is returned and the second exception is not sent
C11_Witness ==
    /\ variant = "lib"
    /\ call.op = "capture_exception_batch"
    /\ Len(call.events) = 2
    /\ Len(call.sends) = 1
    /\ call.sends[1].outcome = "Err"
    /\ call.result = Err("Connection")

\* the last public capture call was a capture of one event
SingleCall == call.op \in {"capture", "capture_exception"}

\* C12: capture, and capture_exception which calls it, return a value in every
\* case and never panic: Ok exactly when the envelope was serialized and the
\* one send of it succeeded, Connection exactly when that send failed, and
\* Serialization exactly when nothing was sent.
C12_CaptureReturns ==
    SingleCall =>
        /\ call.result # Panicked
        /\ call.result \in {Ok("unit"), Err("Connection"), Err("Serialization")}
        /\ call.result = Ok("unit") <=>
              /\ Len(call.sends) = 1
              /\ call.sends[1].outcome = "Ok"
        /\ call.result = Err("Connection") <=>
              /\ Len(call.sends) = 1
              /\ call.sends[1].outcome = "Err"
        /\ call.result = Err("Serialization") <=> call.sends = <<>>
        /\ \A i \in 1..Len(call.sends) :
              /\ call.sends[i].body = EventBody(1)
              /\ call.sends[i].content_type = "application/json"
              /\ call.sends[i].url = ApiEndpoint

\* C12's case: a capture whose send the transport failed, returned to the
\* caller as a Connection error
C12_Witness ==
    /\ call.op = "capture"
    /\ Len(call.sends) = 1
    /\ call.sends[1].outcome = "Err"
    /\ call.result = Err("Connection")

-----------------------------------------------------------------------------
(* Properties of the derived exception type *)

\* the type in the one descriptor of the Exception under construction
DerivedType == obj.val.properties.exception_list.val.items[1].fields.type.str

ErrorLiteral == <<"E", "r", "r", "o", "r">>

\* the prefix of s before its first character in the set cs, all of s when it
\* has none
PrefixBefore(s, cs) ==
    LET stops == { i \in 1..Len(s) : s[i] \in cs }
    IN  IF stops = {} THEN s
        ELSE SubSeq(s, 1, (CHOOSE i \in stops : \A j \in stops : i <= j) - 1)

\* t is s without the whitespace at its two ends
IsTrimOf(t, s) ==
    \E a \in 0..Len(s) :
        /\ a + Len(t) <= Len(s)
        /\ t = SubSeq(s, a + 1, a + Len(t))
        /\ \A i \in 1..a : s[i] \in Whitespace
        /\ \A i \in (a + Len(t) + 1)..Len(s) : s[i] \in Whitespace
        /\ t # <<>> => t[1] \notin Whitespace /\ t[Len(t)] \notin Whitespace

\* the length of the run of letters s starts with
LeadingLetters(s) ==
    IF \E i \in 1..Len(s) : s[i] \notin Letters
    THEN (CHOOSE i \in 1..Len(s) :
             s[i] \notin Letters /\ \A j \in 1..(i - 1) : s[j] \in Letters) - 1
    ELSE Len(s)

\* the Debug string starts with an identifier followed by ( or {
StartsWithIdentifier(dbg) ==
    LET n == LeadingLetters(dbg)
    IN  n > 0 /\ n < Len(dbg) /\ dbg[n + 1] \in {"(", "{"}

\* C13 as claimed: the derived type is "Error" when the Debug string is the
\* Debug formatting of the Display string, and otherwise the Debug string's
\* prefix before its first whitespace character (a newline included), ( or {,
\* trimmed; a Debug string that starts with an identifier followed by ( or {
\* gives that identifier.
C13_TypeFromStrings ==
    obj.kind = "Exception" =>
        LET f == obj.made.failure
        IN  /\ f.dbg = DebugStr(f.display) => DerivedType = ErrorLiteral
            /\ f.dbg # DebugStr(f.display) =>
                  IsTrimOf(DerivedType,
                           PrefixBefore(f.dbg, Whitespace \cup {"(", "{"}))
            /\ (f.dbg # DebugStr(f.display) /\ StartsWithIdentifier(f.dbg)) =>
                  DerivedType = SubSeq(f.dbg, 1, LeadingLetters(f.dbg))

\* what parse_exception_type derives instead: the characters that end the
\* prefix are the space, the carriage return, the line feed, ( and {; any
\* other whitespace character (a tab) stays in the prefix, and the trim
\* removes it only at the two ends.
TypeSplitsOnSpace ==
    obj.kind = "Exception" =>
        LET f == obj.made.failure
        IN  /\ f.dbg = DebugStr(f.display) => DerivedType = ErrorLiteral
            /\ f.dbg # DebugStr(f.display) =>
                  IsTrimOf(DerivedType,
                           PrefixBefore(f.dbg, {" ", "\r", "\n", "(", "{"}))
            /\ (f.dbg # DebugStr(f.display) /\ StartsWithIdentifier(f.dbg)) =>
                  DerivedType = SubSeq(f.dbg, 1, LeadingLetters(f.dbg))

-----------------------------------------------------------------------------
(* Properties of the hook's installation by several threads *)

\* the clients constructed with panic capturing enabled
Capturing ==
    { c \in 1..Len(clients) : clients[c].enable_panic_capturing }

\* the hook that was there before the first client ran for the panic handled
\* last
OrigRuns ==
    { i \in TracePos("base") : trace[i].hook = "Orig" }

\* C14: whatever the interleaving of the constructions' take_hook and
\* set_hook steps with each other and with panics, no installed hook is lost:
\* once every construction has finished, the registered hook holds every
\* capturing-enabled client and the original hook, and a panic makes each of
\* these clients capture once and calls the original hook once; a panic
\* during an installation makes every client capture whose hook was installed
\* before it.
C14_InstallationUnderInterleaving ==
    /\ AllFinished =>
          /\ hook.base = "Orig"
          /\ \A c \in Capturing :
                Cardinality({ i \in 1..Len(hook.chain) : hook.chain[i] = c }) = 1
    /\ panicking.state = "done" =>
          /\ \A c \in Installed : Cardinality(CapturesOf(c)) = 1
          /\ AllFinished =>
                /\ \A c \in Capturing : Cardinality(CapturesOf(c)) = 1
                /\ Cardinality(OrigRuns) = 1

=============================================================================
